---------------------------- MODULE Spec2Model ----------------------------
(***************************************************************************)
(* A model of the timetable registry: the calendar worker (resolveSlot,    *)
(* buildDayEntries, escapeICS, foldLine, generateICS and the request       *)
(* handler) and the registry's semantic validator (validateSemantics).     *)
(*                                                                         *)
(* JavaScript strings are TLA+ strings (Len, \o and SubSeq work on them    *)
(* character by character).  A JavaScript object is a sequence of          *)
(* <<key, value>> pairs with distinct keys, in insertion order, which is   *)
(* the order Object.keys / Object.entries iterate in.  An array is a       *)
(* sequence; index i of the source is index i + 1 here.                    *)
(***************************************************************************)
EXTENDS Integers, Sequences, FiniteSets, TLC

VARIABLES
    pc,             \* position of the function or handler being run
    slot,           \* resolveSlot: its slot argument
    config,         \* the configuration (resolveSlot, buildDayEntries, generateICS, fetch)
    result,         \* resolveSlot: the value returned
    timetable,      \* the timetable document: [subjects, config, slots, schedule]
    day,            \* buildDayEntries: the weekday name
    resolved,       \* buildDayEntries: the day's cells after slot resolution
    i,              \* buildDayEntries: the scan's cursor, 0..7
    entries,        \* buildDayEntries: the entries pushed so far
    steps,          \* history of the scan: one record per iteration of its loop
    text,           \* escapeICS: its argument
    escaped,        \* escapeICS: the text returned
    folded,         \* foldLine: the text returned
    timetablePath,  \* generateICS: the calendar's title, "year/section/semester"
    weeks,          \* generateICS: the weeksAhead argument, [supplied, nan, value]
    now,            \* generateICS: new Date(), [year, month, date, hours, minutes, seconds]
    dayOfWeek,      \* generateICS: the loop variable, 0..7
    lines,          \* generateICS: the lines pushed so far
    ics,            \* generateICS: the text returned
    request,        \* fetch: the request's URL, [pathname, searchParams]
    assets,         \* fetch: what env.ASSETS.fetch does, [outcome, json]
    response,       \* fetch: the Response returned, [status, headers, body]
    errors          \* validateSemantics: the error messages pushed so far

vars == <<pc, slot, config, result, timetable, day, resolved, i, entries, steps,
          text, escaped, folded, timetablePath, weeks, now, dayOfWeek, lines, ics,
          request, assets, response, errors>>

resolveVars == <<slot, result>>
dayVars == <<day, resolved, i, entries, steps>>
textVars == <<text, escaped, folded>>
icsVars == <<timetablePath, weeks, now, dayOfWeek, lines, ics>>
fetchVars == <<request, assets, response>>
validateVars == <<errors>>

(***************************************************************************)
(* JavaScript values                                                       *)
(***************************************************************************)
\* The value undefined.  No string of the model's universe equals it.
undefined == "<undefined>"

\* A property key is a string: undefined is converted to "undefined".
ToPropertyKey(k) == IF k = undefined THEN "undefined" ELSE k

\* Own keys of an object, in insertion order.
Keys(obj) == [n \in 1..Len(obj) |-> obj[n][1]]

Has(obj, k) == \E n \in 1..Len(obj) : obj[n][1] = ToPropertyKey(k)

\* The members every plain object inherits from Object.prototype, and the
\* value a lookup of one of them finds: a function, which is truthy, equals
\* no string, and as a property key is a text no object of the model has.
ObjectPrototypeKeys ==
    {"constructor", "hasOwnProperty", "isPrototypeOf", "propertyIsEnumerable",
     "toLocaleString", "toString", "valueOf"}

inherited == "<inherited>"

\* obj[k] for an object whose values are strings: an own property, else an
\* inherited member, else undefined.
Get(obj, k) ==
    IF Has(obj, k)
    THEN obj[CHOOSE n \in 1..Len(obj) : obj[n][1] = ToPropertyKey(k)][2]
    ELSE IF ToPropertyKey(k) \in ObjectPrototypeKeys THEN inherited
    ELSE undefined

\* arr[i] of the source, for the 1-based index i + 1: out of range is undefined.
At(arr, n) == IF n \in 1..Len(arr) THEN arr[n] ELSE undefined

\* The value null.
null == "<null>"

\* !v on strings: undefined, null and "" are falsy.
Falsy(v) == v = undefined \/ v = null \/ v = ""

\* a || b
OrElse(a, b) == IF Falsy(a) THEN b ELSE a

Range(s) == {s[n] : n \in 1..Len(s)}

(***************************************************************************)
(* resolveSlot                                                             *)
(***************************************************************************)
\* The callback of choice.pattern.every: the pattern's elements are the ones
\* iterated, each against config[slot.match[i]].
PatternMatches(s, cfg, choice) ==
    \A n \in 1..Len(choice.pattern) :
        \/ choice.pattern[n] = "*"
        \/ Get(cfg, At(s.match, n)) = choice.pattern[n]

\* for (const choice of slot.choices) { if (matches) return choice.value }
RECURSIVE ResolveFrom(_, _, _)
ResolveFrom(s, cfg, n) ==
    IF n > Len(s.choices) THEN "FREE"
    ELSE IF PatternMatches(s, cfg, s.choices[n]) THEN s.choices[n].value
    ELSE ResolveFrom(s, cfg, n + 1)

\* Mutant of resolveComplex: the last matching choice wins.
ResolveLast(s, cfg) ==
    LET hits == {n \in 1..Len(s.choices) : PatternMatches(s, cfg, s.choices[n])}
    IN  IF hits = {} THEN "FREE"
        ELSE s.choices[CHOOSE n \in hits : \A m \in hits : m <= n].value

resolveComplex(s, cfg) == ResolveFrom(s, cfg, 1)

resolveSimple(s, cfg) == OrElse(Get(s.choices, Get(cfg, s.match)), "FREE")

\* A slot is [isArray, match, choices]: isArray is Array.isArray(slot.match).
resolveSlot(s, cfg) ==
    IF s.isArray THEN resolveComplex(s, cfg) ELSE resolveSimple(s, cfg)

(***************************************************************************)
(* Strings                                                                 *)
(***************************************************************************)
\* s.endsWith(suffix)
endsWith(s, suffix) ==
    /\ Len(s) >= Len(suffix)
    /\ SubSeq(s, Len(s) - Len(suffix) + 1, Len(s)) = suffix

\* The 1-based places where pat occurs in s.
Occurrences(s, pat) ==
    {n \in 1..(Len(s) - Len(pat) + 1) : SubSeq(s, n, n + Len(pat) - 1) = pat}

\* s.replace(pat, rep) with a string pattern: the first occurrence only.
replace(s, pat, rep) ==
    IF Occurrences(s, pat) = {} THEN s
    ELSE LET n == CHOOSE k \in Occurrences(s, pat) : \A m \in Occurrences(s, pat) : k <= m
         IN  SubSeq(s, 1, n - 1) \o rep \o SubSeq(s, n + Len(pat), Len(s))

\* The concatenation of the strings q[lo], ..., q[hi], by halves (the
\* recursion stays shallow on long texts).
RECURSIVE ConcatRange(_, _, _)
ConcatRange(q, lo, hi) ==
    IF lo > hi THEN ""
    ELSE IF lo = hi THEN q[lo]
    ELSE ConcatRange(q, lo, (lo + hi) \div 2) \o ConcatRange(q, (lo + hi) \div 2 + 1, hi)

Concat(q) == ConcatRange(q, 1, Len(q))

\* The character of s at the 1-based place n.
CharAt(s, n) == SubSeq(s, n, n)

\* s.replace(/c/g, rep) for a one-character pattern c: every occurrence.
replaceAll(s, c, rep) ==
    Concat([n \in 1..Len(s) |-> IF CharAt(s, n) = c THEN rep ELSE CharAt(s, n)])

\* s.split(sep), for a separator whose occurrences cannot overlap.
split(s, sep) ==
    LET seps  == Occurrences(s, sep)
        m     == Cardinality(seps)
        at(k) == CHOOSE p \in seps : Cardinality({q \in seps : q < p}) = k - 1
    IN  [k \in 1..(m + 1) |->
            SubSeq(s, IF k = 1 THEN 1 ELSE at(k - 1) + Len(sep),
                      IF k = m + 1 THEN Len(s) ELSE at(k) - 1)]

\* s.slice(a, b) and s.slice(a) for 0 <= a <= b: the ends are clamped.
slice(s, a, b) == SubSeq(s, a + 1, IF b < Len(s) THEN b ELSE Len(s))
sliceFrom(s, a) == SubSeq(s, a + 1, Len(s))

\* parts.join(sep)
join(parts, sep) ==
    Concat([n \in 1..Len(parts) |-> IF n = 1 THEN parts[n] ELSE sep \o parts[n]])

(***************************************************************************)
(* escapeICS and foldLine                                                  *)
(***************************************************************************)
\* Mutant of escapeICS: the backslash is doubled last, not first.
escapeBackslashLast(t) ==
    IF t = undefined \/ t = "" THEN ""
    ELSE replaceAll(replaceAll(replaceAll(replaceAll(t,
             ";", "\\;"), ",", "\\,"), "\n", "\\n"), "\\", "\\\\")

escapeICS(t) ==
    IF t = undefined \/ t = "" THEN ""
    ELSE replaceAll(replaceAll(replaceAll(replaceAll(t,
             "\\", "\\\\"), ";", "\\;"), ",", "\\,"), "\n", "\\n")

\* while (remaining.length > 0) { result.push(' ' + remaining.slice(0, 74)); ... }
RECURSIVE foldRest(_)
foldRest(remaining) ==
    IF Len(remaining) = 0 THEN <<>>
    ELSE <<" " \o slice(remaining, 0, 74)>> \o foldRest(sliceFrom(remaining, 74))

foldLine(line) ==
    IF Len(line) <= 75 THEN line
    ELSE join(<<slice(line, 0, 75)>> \o foldRest(sliceFrom(line, 75)), "\r\n")

(***************************************************************************)
(* buildDayEntries                                                         *)
(***************************************************************************)
SLOTS == << <<"08:10", "09:00">>, <<"09:00", "09:50">>, <<"09:50", "10:40">>,
            <<"11:00", "11:50">>, <<"11:50", "12:40">>, <<"14:00", "14:50">>,
            <<"14:50", "15:40">> >>

\* Mutant of LAB_SLOTS: the lab range of position 3 starts at 10:30.
LAB_SLOTS_Early == [n \in {0, 3, 5} |->
                       CASE n = 0 -> <<"08:10", "10:25">>
                         [] n = 3 -> <<"10:30", "13:05">>
                         [] n = 5 -> <<"13:25", "15:40">>]

LAB_SLOTS == [n \in {0, 3, 5} |->
                 CASE n = 0 -> <<"08:10", "10:25">>
                   [] n = 3 -> <<"10:50", "13:05">>
                   [] n = 5 -> <<"13:25", "15:40">>]

\* obj[k] for an object whose values are records (subjects, slots, schedule
\* days): only read where Has(obj, k), the truthiness test of the source.
\* The keys looked up in a document's subjects, slots and schedule are taken
\* not to be names of Object.prototype members.
GetObj(obj, k) ==
    obj[CHOOSE n \in 1..Len(obj) : obj[n][1] = ToPropertyKey(k)][2]

\* schedule.map(entry => timetable.slots[entry] ? resolveSlot(...) : entry)
resolveCells(tt, cfg, schedule) ==
    [n \in 1..Len(schedule) |->
        IF Has(tt.slots, schedule[n])
        THEN resolveSlot(GetObj(tt.slots, schedule[n]), cfg)
        ELSE schedule[n]]

\* Mutant of isLabAt: the neighbouring cells are not compared.
isLabNoNeighbours(r, c) == endsWith(r[c + 1], "_LAB") /\ c \in {0, 3, 5}

\* The lab test of the loop body, at cursor c (0-based) of the resolved cells r.
isLabAt(r, c) ==
    /\ endsWith(r[c + 1], "_LAB")
    /\ \/ (c = 0 /\ At(r, 2) = r[c + 1] /\ At(r, 3) = r[c + 1])
       \/ ((c = 3 \/ c = 5) /\ At(r, c + 2) = r[c + 1])

baseKeyOf(subjectKey) == replace(subjectKey, "_LAB", "")

\* The entry pushed for the cell at cursor c, given that its subject exists.
entryAt(tt, r, c) ==
    LET subject == GetObj(tt.subjects, baseKeyOf(r[c + 1]))
        range   == IF isLabAt(r, c) THEN LAB_SLOTS[c] ELSE SLOTS[c + 1]
    IN  [name    |-> IF isLabAt(r, c) THEN "(Lab) " \o subject.name ELSE subject.name,
         code    |-> subject.code,
         faculty |-> subject.faculty,
         start   |-> range[1],
         end     |-> range[2]]

\* What one iteration of the while loop pushes, for a cell that is not "FREE".
pushedAt(tt, r, c) ==
    IF Has(tt.subjects, baseKeyOf(r[c + 1])) THEN <<entryAt(tt, r, c)>> ELSE <<>>

\* Mutant of advanceAt: the cursor always advances by three.
advanceThree(r, c) == 3

\* Mutant of advanceAt: the cursor always advances by one.
advanceOne(r, c) == 1

\* i += isLab ? (i === 0 ? 3 : 2) : 1
advanceAt(r, c) == IF isLabAt(r, c) THEN (IF c = 0 THEN 3 ELSE 2) ELSE 1

\* The loop from cursor c on, as generateICS uses it.
RECURSIVE scanFrom(_, _, _)
scanFrom(tt, r, c) ==
    IF c >= 7 THEN <<>>
    ELSE IF r[c + 1] = "FREE" THEN scanFrom(tt, r, c + 1)
    ELSE pushedAt(tt, r, c) \o scanFrom(tt, r, c + advanceAt(r, c))

buildDayEntries(d, tt, cfg) ==
    IF ~Has(tt.schedule, d) THEN <<>>
    ELSE scanFrom(tt, resolveCells(tt, cfg, GetObj(tt.schedule, d)), 0)

(***************************************************************************)
(* Dates                                                                   *)
(***************************************************************************)
\* The days from 1970-01-01 to the civil date y-m-d, and back: what the Date
\* object's setDate and getDay compute.  The local time zone is UTC.
DayNumber(y, m, d) ==
    LET yy  == IF m <= 2 THEN y - 1 ELSE y
        era == yy \div 400
        yoe == yy - era * 400
        doy == (153 * (IF m > 2 THEN m - 3 ELSE m + 9) + 2) \div 5 + d - 1
        doe == yoe * 365 + yoe \div 4 - yoe \div 100 + doy
    IN  era * 146097 + doe - 719468

CivilDate(z) ==
    LET zz  == z + 719468
        era == zz \div 146097
        doe == zz - era * 146097
        yoe == (doe - doe \div 1460 + doe \div 36524 - doe \div 146096) \div 365
        doy == doe - (365 * yoe + yoe \div 4 - yoe \div 100)
        mp  == (5 * doy + 2) \div 153
        m   == IF mp < 10 THEN mp + 3 ELSE mp - 9
    IN  [year  |-> yoe + era * 400 + (IF m <= 2 THEN 1 ELSE 0),
         month |-> m,
         date  |-> doy - (153 * mp + 2) \div 5 + 1]

\* date.setDate(date.getDate() + n): the time of day is kept.
addDays(date, n) ==
    LET c == CivilDate(DayNumber(date.year, date.month, date.date) + n)
    IN  [date EXCEPT !.year = c.year, !.month = c.month, !.date = c.date]

\* date.getDay(): 0 is Sunday; 1970-01-01 was a Thursday.
getDay(date) == (DayNumber(date.year, date.month, date.date) + 4) % 7

\* String(n) for a natural number n.
RECURSIVE String(_)
String(n) ==
    IF n < 10 THEN SubSeq("0123456789", n + 1, n + 1)
    ELSE String(n \div 10) \o SubSeq("0123456789", (n % 10) + 1, (n % 10) + 1)

\* String(n).padStart(2, '0')
padStart2(n) == IF n < 10 THEN "0" \o String(n) ELSE String(n)

formatDate(date) == String(date.year) \o padStart2(date.month) \o padStart2(date.date)

(***************************************************************************)
(* generateICS                                                             *)
(***************************************************************************)
DAYS == <<"Sunday", "Monday", "Tuesday", "Wednesday", "Thursday", "Friday", "Saturday">>
DAYS_ICS == <<"SU", "MO", "TU", "WE", "TH", "FR", "SA">>

\* Mutant of weeksAheadOf: the default is 12.
weeksAheadDefault12(w) == IF w.supplied THEN w.value ELSE 12

\* function generateICS(..., weeksAhead = 16)
weeksAheadOf(w) == IF w.supplied THEN w.value ELSE 16

headerLines(path) ==
    <<"BEGIN:VCALENDAR",
      "VERSION:2.0",
      "PRODID:-//AMRITA.TOWN/TIMETABLE//EN",
      "CALSCALE:GREGORIAN",
      "METHOD:PUBLISH",
      "X-WR-CALNAME:" \o escapeICS(path) \o " Timetable",
      "X-WR-TIMEZONE:Asia/Kolkata",
      "BEGIN:VTIMEZONE",
      "TZID:Asia/Kolkata",
      "BEGIN:STANDARD",
      "DTSTART:19700101T000000",
      "TZOFFSETFROM:+0530",
      "TZOFFSETTO:+0530",
      "END:STANDARD",
      "END:VTIMEZONE">>

dtstampOf(t) ==
    formatDate(t) \o "T" \o padStart2(t.hours) \o padStart2(t.minutes)
                 \o padStart2(t.seconds) \o "Z"

\* endDate.setDate(endDate.getDate() + weeksAhead * 7): with weeksAhead NaN the
\* date is invalid and formatDate prints NaN three times.
untilDateOf(t, w) ==
    IF w.supplied /\ w.nan THEN "NaNNaNNaN" \o "T235959Z"
    ELSE formatDate(addDays(t, weeksAheadOf(w) * 7)) \o "T235959Z"

\* The first occurrence of weekday dow (0..6) from today.
firstDateOf(t, dow) == addDays(t, (dow - getDay(t) + 7) % 7)

descriptionOf(entry) ==
    join(<<"Code: " \o entry.code, "Faculty: " \o join(entry.faculty, ", ")>>, "\\n")

\* const uid = `${dayName}-${startTime}-${entry.code}@timetable.amrita.town`
uidOf(entry, dow) ==
    DAYS[dow + 1] \o "-" \o replace(entry.start, ":", "") \o "00" \o "-" \o entry.code
        \o "@timetable.amrita.town"

\* The lines pushed for one entry of weekday dow.
eventLines(entry, dow, t, w) ==
    LET dateStr   == formatDate(firstDateOf(t, dow))
        startTime == replace(entry.start, ":", "") \o "00"
        endTime   == replace(entry.end, ":", "") \o "00"
        uid       == uidOf(entry, dow)
    IN  <<"BEGIN:VEVENT",
          foldLine("UID:" \o uid),
          "DTSTAMP:" \o dtstampOf(t),
          "DTSTART:" \o dateStr \o "T" \o startTime,
          "DTEND:" \o dateStr \o "T" \o endTime,
          "RRULE:FREQ=WEEKLY;BYDAY=" \o DAYS_ICS[dow + 1] \o ";UNTIL=" \o untilDateOf(t, w),
          foldLine("SUMMARY:" \o escapeICS(entry.name)),
          foldLine("DESCRIPTION:" \o descriptionOf(entry)),
          "END:VEVENT">>

\* The concatenation of the sequences q[lo], ..., q[hi].
RECURSIVE FlattenRange(_, _, _)
FlattenRange(q, lo, hi) ==
    IF lo > hi THEN <<>> ELSE q[lo] \o FlattenRange(q, lo + 1, hi)

\* The body of the loop over dayOfWeek: the lines of the day's entries.
dayLines(tt, cfg, dow, t, w) ==
    LET es == buildDayEntries(DAYS[dow + 1], tt, cfg)
    IN  FlattenRange([n \in 1..Len(es) |-> eventLines(es[n], dow, t, w)], 1, Len(es))

generateICS(tt, cfg, path, w, t) ==
    join(headerLines(path)
             \o FlattenRange([d \in 1..7 |-> dayLines(tt, cfg, d - 1, t, w)], 1, 7)
             \o <<"END:VCALENDAR">>,
         "\r\n")

(***************************************************************************)
(* Inputs of resolveSlot                                                   *)
(***************************************************************************)
MaxChoices == 2

\* Sequences over S of length 0..n.
SeqUpTo(S, n) == UNION {[1..k -> S] : k \in 0..n}

\* A configuration: batch and elective, each set or unset.
ConfigOf(b, e) ==
    (IF b = undefined THEN <<>> ELSE << <<"batch", b>> >>) \o
    (IF e = undefined THEN <<>> ELSE << <<"elective", e>> >>)

Configs == {ConfigOf(b, e) : b \in {undefined, "g1", "g2"}, e \in {undefined, "NLP"}}

SlotValues == {"A", "B_LAB", "FREE"}

Patterns == {<<a>> : a \in {"*", "g1"}} \cup
            {<<a, b>> : a \in {"*", "g1"}, b \in {"*", "NLP"}}

ComplexChoices == [pattern : Patterns, value : SlotValues]

ComplexSlots ==
    [isArray : {TRUE},
     match   : {<<"batch">>, <<"batch", "elective">>},
     choices : SeqUpTo(ComplexChoices, MaxChoices) \ {<<>>}]

\* The choices of a SimpleSlot: an object from value ids to subject references.
SimpleChoices ==
    {c \in SeqUpTo({"g1", "g2", "undefined"} \X (SlotValues \cup {""}), MaxChoices) :
        \A m, n \in 1..Len(c) : m # n => c[m][1] # c[n][1]}

SimpleSlots == [isArray : {FALSE}, match : {"batch"}, choices : SimpleChoices]

\* The values of the variables a specification does not use.
ResolveIdle == slot = <<>> /\ result = undefined
DayIdle == day = "" /\ resolved = <<>> /\ i = 0 /\ entries = <<>> /\ steps = <<>>
TextIdle == text = "" /\ escaped = "" /\ folded = ""
IcsIdle ==
    /\ timetablePath = "" /\ weeks = <<>> /\ now = <<>>
    /\ dayOfWeek = 0 /\ lines = <<>> /\ ics = ""
FetchIdle == request = <<>> /\ assets = <<>> /\ response = <<>>
ValidateIdle == errors = <<>>

(***************************************************************************)
(* SpecResolve: resolveSlot applied to every slot and configuration        *)
(***************************************************************************)
InitResolve ==
    /\ pc = "resolveSlot"
    /\ slot \in ComplexSlots \cup SimpleSlots
    /\ config \in Configs
    /\ result = undefined
    /\ timetable = <<>>
    /\ DayIdle /\ TextIdle /\ IcsIdle /\ FetchIdle /\ ValidateIdle

CallResolveSlot ==
    /\ pc = "resolveSlot"
    /\ result' = resolveSlot(slot, config)
    /\ pc' = "returned"
    /\ UNCHANGED <<slot, config, timetable, dayVars, textVars, icsVars, fetchVars, validateVars>>

NextResolve == CallResolveSlot

SpecResolve == InitResolve /\ [][NextResolve]_vars

(***************************************************************************)
(* Claims about resolveSlot                                                *)
(***************************************************************************)
\* The claim's matching rule for choice n of a ComplexSlot: every pattern
\* element other than "*" has an aligned match key, the configuration sets
\* that key, and its value is the element.
AlignedMatch(s, cfg, n) ==
    \A k \in 1..Len(s.choices[n].pattern) :
        s.choices[n].pattern[k] # "*" =>
            /\ k <= Len(s.match)
            /\ \E j \in 1..Len(cfg) :
                   cfg[j][1] = s.match[k] /\ cfg[j][2] = s.choices[n].pattern[k]

AllWildcards(p) == \A k \in 1..Len(p) : p[k] = "*"

\* C1: on a ComplexSlot resolveSlot returns the value of the first choice, in
\* document order, whose every non-wildcard pattern element equals the
\* configuration's value for the aligned match key, whatever later choices
\* match as well; resolution never goes past a choice whose pattern is all "*".
C1_FirstMatchWins ==
    (pc = "returned" /\ slot.isArray) =>
        /\ \A n \in 1..Len(slot.choices) :
              (/\ AlignedMatch(slot, config, n)
               /\ \A m \in 1..(n - 1) : ~AlignedMatch(slot, config, m))
                  => result = slot.choices[n].value
        /\ \A n \in 1..Len(slot.choices) :
              AllWildcards(slot.choices[n].pattern) =>
                  \E m \in 1..n : /\ result = slot.choices[m].value
                                  /\ AlignedMatch(slot, config, m)

\* C1 witness: two choices match, the second is all wildcards and carries
\* another value, and the first one's value was returned.
C1_Witness ==
    /\ pc = "returned" /\ slot.isArray
    /\ Len(slot.choices) = 2
    /\ ~AllWildcards(slot.choices[1].pattern)
    /\ AlignedMatch(slot, config, 1)
    /\ AllWildcards(slot.choices[2].pattern)
    /\ slot.choices[1].value # slot.choices[2].value
    /\ result = slot.choices[1].value

\* The claim's matching rule for a SimpleSlot: the configuration sets the
\* match key and the choices hold an entry for its value.
SimpleMatch(s, cfg) ==
    \E j \in 1..Len(cfg) :
        /\ cfg[j][1] = s.match
        /\ \E n \in 1..Len(s.choices) : s.choices[n][1] = cfg[j][2]

NoChoiceMatches(s, cfg) ==
    IF s.isArray
    THEN \A n \in 1..Len(s.choices) : ~AlignedMatch(s, cfg, n)
    ELSE ~SimpleMatch(s, cfg)

\* C2: whenever no choice of the slot matches the configuration (a match key
\* may be unset), resolveSlot returns "FREE".
C2_NoMatchIsFree ==
    (pc = "returned" /\ NoChoiceMatches(slot, config)) => result = "FREE"

\* C2 restricted to the slots whose choices hold no key spelled "undefined":
\* there an unset or unmatched key resolves to "FREE".
C2_NoMatchIsFreeOwnKeys ==
    (/\ pc = "returned" /\ NoChoiceMatches(slot, config)
     /\ (~slot.isArray => \A n \in 1..Len(slot.choices) : slot.choices[n][1] # "undefined"))
        => result = "FREE"

(***************************************************************************)
(* Inputs of buildDayEntries                                               *)
(***************************************************************************)
Subject(n, c, f) == [name |-> n, shortName |-> n, code |-> c, faculty |-> f]

SubjA   == <<"A",       Subject("Algorithms", "23CSE301", <<"Dr. P", "Dr. D">>)>>
SubjB   == <<"B",       Subject("Biology", "23BIO302", <<"Dr. Q">>)>>
SubjLSE == <<"LSE",     Subject("Life Skills", "23LSE303", <<>>)>>
SubjDSL == <<"DS_LAB1", Subject("Data Structures Lab 1", "23CSE381", <<"Dr. R">>)>>
SubjDS1 == <<"DS1",     Subject("Design Studio", "23DES101", <<"Dr. S">>)>>

\* config: one option, batch, with the value ids g1 and g2.
BatchOption ==
    << <<"batch", [label |-> "Batch",
                   values |-> <<[label |-> "G1", id |-> "g1"],
                                [label |-> "G2", id |-> "g2"]>>]>> >>

\* The tutorial's slot: batch g2 has the lab of B, everyone else is free.
MondayLabSlot ==
    <<"mondayLab", [isArray |-> FALSE, match |-> "batch",
                    choices |-> << <<"g2", "B_LAB">> >>]>>

\* Families of documents: the subjects and slots, the values a cell of the day
\* may hold, and the configurations the day is compiled under.
DayFamilies ==
    { [subjects |-> <<SubjA, SubjB, SubjLSE>>, slots |-> <<MondayLabSlot>>,
       cells |-> {"mondayLab", "A", "LSE"},
       configs |-> {ConfigOf("g1", undefined), ConfigOf("g2", undefined)}],
      [subjects |-> <<SubjA, SubjB, SubjLSE>>, slots |-> <<>>,
       cells |-> {"A_LAB", "B_LAB", "FREE"}, configs |-> {<<>>}],
      [subjects |-> <<SubjA, SubjLSE>>, slots |-> <<>>,
       cells |-> {"A_LAB", "B_LAB", "FREE"}, configs |-> {<<>>}],
      [subjects |-> <<SubjA, SubjB>>, slots |-> <<>>,
       cells |-> {"A_LAB", "A", "B"}, configs |-> {<<>>}],
      [subjects |-> <<SubjA, SubjDSL>>, slots |-> <<>>,
       cells |-> {"DS_LAB1", "DS_LAB1_LAB", "A_LAB"}, configs |-> {<<>>}],
      [subjects |-> <<SubjA, SubjDSL, SubjDS1>>, slots |-> <<>>,
       cells |-> {"DS_LAB1", "DS_LAB1_LAB", "FREE"}, configs |-> {<<>>}],
      [subjects |-> <<SubjA, SubjDS1>>, slots |-> <<>>,
       cells |-> {"DS_LAB1", "A_LAB", "FREE"}, configs |-> {<<>>}] }

Timetable(f, cells) ==
    [subjects |-> f.subjects, config |-> BatchOption, slots |-> f.slots,
     schedule |-> << <<"Monday", cells>> >>]

(***************************************************************************)
(* SpecDay: buildDayEntries, one iteration of its loop per step            *)
(***************************************************************************)
InitDay ==
    /\ pc = "buildDayEntries"
    /\ \E f \in DayFamilies :
          /\ timetable \in {Timetable(f, cells) : cells \in [1..7 -> f.cells]}
          /\ config \in f.configs
    /\ day \in {"Monday", "Sunday"}
    /\ (day = "Sunday" => \A n \in 1..7 : timetable.schedule[1][2][n] = "A")
    /\ resolved = <<>> /\ i = 0 /\ entries = <<>> /\ steps = <<>>
    /\ ResolveIdle /\ TextIdle /\ IcsIdle /\ FetchIdle /\ ValidateIdle

\* const schedule = timetable.schedule[day]; if (!schedule) return [];
\* const resolved = schedule.map(...); const entries = []; let i = 0;
EnterBuildDay ==
    /\ pc = "buildDayEntries"
    /\ IF Has(timetable.schedule, day)
       THEN /\ resolved' = resolveCells(timetable, config, GetObj(timetable.schedule, day))
            /\ pc' = "scan"
       ELSE /\ resolved' = resolved
            /\ pc' = "returned"
    /\ i' = 0
    /\ entries' = <<>>
    /\ UNCHANGED <<timetable, config, day, steps, resolveVars, textVars, icsVars, fetchVars, validateVars>>

\* if (subjectKey === 'FREE') { i++; continue; }
ScanFree ==
    /\ pc = "scan"
    /\ i < 7
    /\ resolved[i + 1] = "FREE"
    /\ i' = i + 1
    /\ steps' = Append(steps, [at |-> i, lab |-> FALSE, before |-> Len(entries),
                               after |-> Len(entries), to |-> i + 1])
    /\ UNCHANGED <<pc, timetable, config, day, resolved, entries, resolveVars, textVars, icsVars, fetchVars, validateVars>>

\* The rest of the loop body: the lab test, the subject lookup, the push and
\* the advance of the cursor.
ScanCell ==
    /\ pc = "scan"
    /\ i < 7
    /\ resolved[i + 1] # "FREE"
    /\ entries' = entries \o pushedAt(timetable, resolved, i)
    /\ i' = i + advanceAt(resolved, i)
    /\ steps' = Append(steps, [at |-> i, lab |-> isLabAt(resolved, i),
                               before |-> Len(entries), after |-> Len(entries'),
                               to |-> i'])
    /\ UNCHANGED <<pc, timetable, config, day, resolved, resolveVars, textVars, icsVars, fetchVars, validateVars>>

\* return entries
ReturnEntries ==
    /\ pc = "scan"
    /\ i >= 7
    /\ pc' = "returned"
    /\ UNCHANGED <<timetable, config, dayVars, resolveVars, textVars, icsVars, fetchVars, validateVars>>

NextDay == EnterBuildDay \/ ScanFree \/ ScanCell \/ ReturnEntries

SpecDay == InitDay /\ [][NextDay]_vars

(***************************************************************************)
(* Claims about buildDayEntries                                            *)
(***************************************************************************)
\* The resolved value v without its trailing "_LAB" (v ends with it).
StripLabSuffix(v) == SubSeq(v, 1, Len(v) - 4)

IsSubjectKey(k) == \E n \in 1..Len(timetable.subjects) : timetable.subjects[n][1] = k

SubjectNamed(k) ==
    timetable.subjects[CHOOSE n \in 1..Len(timetable.subjects) :
                           timetable.subjects[n][1] = k][2]

\* The cursor is at c and the cells of a lab run starting at c hold one value.
RunAt(c) ==
    \/ c = 0 /\ resolved[2] = resolved[1] /\ resolved[3] = resolved[1]
    \/ c \in {3, 5} /\ resolved[c + 2] = resolved[c + 1]

HasLabMarker(name) == Len(name) >= 6 /\ SubSeq(name, 1, 6) = "(Lab) "

\* C3: a step of the scan at cursor 0 with cells 0, 1 and 2 holding the same
\* _LAB-suffixed value, or at cursor 3 (5) with cell 4 (6) holding the same
\* _LAB-suffixed value, whose base subject (the value without the suffix) is a
\* subject, pushes exactly one entry: the subject's name behind the lab
\* marker, the widened range of the start position; the cursor advances by 3
\* from 0 and by 2 from 3 or 5.
C3_LabRunMerged ==
    \A n \in 1..Len(steps) :
        LET c == steps[n].at
            v == resolved[c + 1]
        IN  (/\ endsWith(v, "_LAB") /\ RunAt(c)
             /\ IsSubjectKey(StripLabSuffix(v)))
            => /\ steps[n].after = steps[n].before + 1
               /\ entries[steps[n].after].name
                      = "(Lab) " \o SubjectNamed(StripLabSuffix(v)).name
               /\ entries[steps[n].after].start = LAB_SLOTS[c][1]
               /\ entries[steps[n].after].end = LAB_SLOTS[c][2]
               /\ steps[n].to = c + (IF c = 0 THEN 3 ELSE 2)

\* C3 where "_LAB" occurs in the value only as its suffix: the lab run is
\* merged as C3 says.
C3_LabRunMergedPlainKeys ==
    \A n \in 1..Len(steps) :
        LET c == steps[n].at
            v == resolved[c + 1]
        IN  (/\ endsWith(v, "_LAB") /\ RunAt(c)
             /\ Occurrences(v, "_LAB") = {Len(v) - 3}
             /\ IsSubjectKey(StripLabSuffix(v)))
            => /\ steps[n].after = steps[n].before + 1
               /\ entries[steps[n].after].name
                      = "(Lab) " \o SubjectNamed(StripLabSuffix(v)).name
               /\ entries[steps[n].after].start = LAB_SLOTS[c][1]
               /\ entries[steps[n].after].end = LAB_SLOTS[c][2]
               /\ steps[n].to = c + (IF c = 0 THEN 3 ELSE 2)

TutorialMonday == <<"mondayLab", "mondayLab", "mondayLab", "A", "LSE", "LSE", "LSE">>

\* C5: the tutorial's Monday, [mondayLab x 3, A, LSE x 3], with mondayLab
\* resolving to "B_LAB" and the subjects A, B and LSE present, compiles to
\* exactly five entries in this order: the lab of B over the widened range of
\* period 0, A over period 3, and LSE over periods 4, 5 and 6, unmerged.
C5_TutorialMonday ==
    (/\ pc = "returned" /\ day = "Monday"
     /\ timetable.schedule = << <<"Monday", TutorialMonday>> >>
     /\ resolved[1] = "B_LAB"
     /\ IsSubjectKey("A") /\ IsSubjectKey("B") /\ IsSubjectKey("LSE"))
    => entries =
         << [name |-> "(Lab) " \o SubjectNamed("B").name, code |-> SubjectNamed("B").code,
             faculty |-> SubjectNamed("B").faculty, start |-> "08:10", end |-> "10:25"],
            [name |-> SubjectNamed("A").name, code |-> SubjectNamed("A").code,
             faculty |-> SubjectNamed("A").faculty, start |-> "11:00", end |-> "11:50"],
            [name |-> SubjectNamed("LSE").name, code |-> SubjectNamed("LSE").code,
             faculty |-> SubjectNamed("LSE").faculty, start |-> "11:50", end |-> "12:40"],
            [name |-> SubjectNamed("LSE").name, code |-> SubjectNamed("LSE").code,
             faculty |-> SubjectNamed("LSE").faculty, start |-> "14:00", end |-> "14:50"],
            [name |-> SubjectNamed("LSE").name, code |-> SubjectNamed("LSE").code,
             faculty |-> SubjectNamed("LSE").faculty, start |-> "14:50", end |-> "15:40"] >>

\* C5 witness: the tutorial's Monday was compiled under batch g2, where
\* mondayLab resolves to "B_LAB".
C5_Witness ==
    /\ pc = "returned" /\ day = "Monday"
    /\ timetable.schedule = << <<"Monday", TutorialMonday>> >>
    /\ Has(timetable.slots, "mondayLab")
    /\ config = ConfigOf("g2", undefined)
    /\ resolved = <<"B_LAB", "B_LAB", "B_LAB", "A", "LSE", "LSE", "LSE">>
    /\ Len(entries) = 5

\* The base subject key of the resolved value v: v without the reserved
\* suffix where v ends with it, v itself otherwise.
BaseSubjectKey(v) == IF endsWith(v, "_LAB") THEN StripLabSuffix(v) ELSE v

\* The positions the cell at c stands for: its lab run, or itself.
RunLength(c) ==
    IF endsWith(resolved[c + 1], "_LAB") /\ RunAt(c) THEN (IF c = 0 THEN 3 ELSE 2) ELSE 1

\* The resolved cells with the cell at c, or its lab run, made "FREE".
FreedAt(c) ==
    [n \in 1..7 |-> IF n - 1 \in c..(c + RunLength(c) - 1) THEN "FREE" ELSE resolved[n]]

\* C12: a step of the scan at a cell that is not "FREE" and whose base subject
\* key is not a key of subjects pushes no entry, the scan returns, and the
\* entries returned are those of the day with that cell (or its lab run) made
\* "FREE".
C12_DanglingDropped ==
    pc = "returned" =>
        \A n \in 1..Len(steps) :
            LET c == steps[n].at
                v == resolved[c + 1]
            IN  (v # "FREE" /\ ~IsSubjectKey(BaseSubjectKey(v)))
                => /\ steps[n].after = steps[n].before
                   /\ entries = scanFrom(timetable, FreedAt(c), 0)

\* C12 for the values in which "_LAB" occurs as the suffix only.
C12_DanglingDroppedPlainKeys ==
    pc = "returned" =>
        \A n \in 1..Len(steps) :
            LET c == steps[n].at
                v == resolved[c + 1]
            IN  (/\ v # "FREE" /\ ~IsSubjectKey(BaseSubjectKey(v))
                 /\ Occurrences(v, "_LAB") \subseteq {Len(v) - 3})
                => /\ steps[n].after = steps[n].before
                   /\ entries = scanFrom(timetable, FreedAt(c), 0)

\* A day with a dangling lab run at 3 and entries around it was compiled.
C12_Witness ==
    /\ pc = "returned"
    /\ \E n \in 1..Len(steps) :
          /\ steps[n].at = 3 /\ resolved[4] = "B_LAB" /\ RunAt(3)
          /\ ~IsSubjectKey("B")
          /\ steps[n].before >= 1 /\ Len(entries) > steps[n].after

(***************************************************************************)
(* SpecText: escapeICS, then foldLine on its result                        *)
(***************************************************************************)
MaxTail == 2

Repeat(s, n) == Concat([k \in 1..n |-> s])

\* The characters the texts end with: the four escaped ones, the carriage
\* return and the space of a line fold, and plain letters.
TailChars == {"a", "n", "\\", ";", ",", "\n", "\r", " "}

Tails == {Concat(t) : t \in SeqUpTo(TailChars, MaxTail)}

\* Lengths of the plain run before the tail: around the first fold (75) and
\* the second (75 + 74).
PadLengths == {0} \cup (72..76) \cup (146..150)

InitText ==
    /\ pc = "escapeICS"
    /\ text \in {Repeat("a", k) \o t : k \in PadLengths, t \in Tails}
    /\ escaped = "" /\ folded = ""
    /\ config = <<>> /\ timetable = <<>>
    /\ ResolveIdle /\ DayIdle /\ IcsIdle /\ FetchIdle /\ ValidateIdle

CallEscapeICS ==
    /\ pc = "escapeICS"
    /\ escaped' = escapeICS(text)
    /\ pc' = "foldLine"
    /\ UNCHANGED <<text, folded, config, timetable, resolveVars, dayVars, icsVars, fetchVars, validateVars>>

CallFoldLine ==
    /\ pc = "foldLine"
    /\ folded' = foldLine(escaped)
    /\ pc' = "returned"
    /\ UNCHANGED <<text, escaped, config, timetable, resolveVars, dayVars, icsVars, fetchVars, validateVars>>

NextText == CallEscapeICS \/ CallFoldLine

SpecText == InitText /\ [][NextText]_vars

(***************************************************************************)
(* Claims about escapeICS and foldLine                                     *)
(***************************************************************************)
\* The number of backslashes that stand immediately before place n of s.
BackslashRun(s, n) ==
    CHOOSE k \in 0..(n - 1) :
        /\ \A j \in (n - k)..(n - 1) : CharAt(s, j) = "\\"
        /\ (k = n - 1 \/ CharAt(s, n - k - 1) # "\\")

\* Un-escaping, read left to right: a backslash and the character after it
\* stand for that character, and for the newline when it is n or N.
UnescapeText(s) ==
    Concat([n \in 1..Len(s) |->
        IF BackslashRun(s, n) % 2 = 1
        THEN (IF CharAt(s, n) \in {"n", "N"} THEN "\n" ELSE CharAt(s, n))
        ELSE (IF CharAt(s, n) = "\\" /\ n < Len(s) THEN "" ELSE CharAt(s, n))])

\* Unfolding: every CRLF that a space follows is removed with that space.
Unfold(s) ==
    LET folds == Occurrences(s, "\r\n ")
    IN  Concat([n \in 1..Len(s) |->
            IF \E f \in folds : n \in f..(f + 2) THEN "" ELSE CharAt(s, n)])

\* The physical lines of s: the segments between its CRLFs.
PhysicalLines(s) == split(s, "\r\n")

\* C7: unfolding and then un-escaping foldLine(escapeICS(s)) gives s back, and
\* so does un-escaping escapeICS(s); a line of at most 75 characters is left
\* as it is, a longer one is cut into a first chunk of 75 characters and
\* chunks of 1 to 74 characters, each behind one space, that make up the line.
C7_FoldEscapeRoundTrip ==
    pc = "returned" =>
        /\ UnescapeText(escaped) = text
        /\ UnescapeText(Unfold(folded)) = text
        /\ Len(escaped) <= 75 => folded = escaped
        /\ Len(escaped) > 75 =>
              LET chunks == PhysicalLines(folded)
              IN  /\ Len(chunks) >= 2
                  /\ Len(chunks[1]) = 75
                  /\ \A k \in 2..Len(chunks) :
                        /\ CharAt(chunks[k], 1) = " "
                        /\ Len(chunks[k]) - 1 \in 1..74
                  /\ escaped = Concat([k \in 1..Len(chunks) |->
                                 IF k = 1 THEN chunks[k]
                                 ELSE SubSeq(chunks[k], 2, Len(chunks[k]))])

\* C7 witness: a text with a backslash and a newline whose escaped form was
\* folded into three physical lines.
C7_Witness ==
    /\ pc = "returned"
    /\ Occurrences(text, "\\") # {}
    /\ Occurrences(text, "\n") # {}
    /\ Len(PhysicalLines(folded)) = 3

(***************************************************************************)
(* Inputs of generateICS                                                   *)
(***************************************************************************)
MaxSection == 60

SubjX ==
    <<"X", Subject("Probability; Statistics, and Random Processes \\ Honours\nSection 2 of the odd semester",
                   "23MAT204", <<"Dr. O, Jr.", "Prof; K">>)>>

AllFree == [n \in 1..7 |-> "FREE"]

\* The documents calendars are generated from: the tutorial's Monday, a
\* subject whose name and faculty hold the characters to escape, and an
\* empty week.
IcsDocuments ==
    { [subjects |-> <<SubjA, SubjB, SubjLSE>>, config |-> BatchOption,
       slots |-> <<MondayLabSlot>>,
       schedule |-> << <<"Monday", TutorialMonday>>,
                       <<"Friday", [AllFree EXCEPT ![6] = "A_LAB", ![7] = "A_LAB"]>> >>],
      [subjects |-> <<SubjA, SubjX>>, config |-> BatchOption, slots |-> <<MondayLabSlot>>,
       schedule |-> << <<"Sunday", [AllFree EXCEPT ![7] = "X"]>>,
                       <<"Wednesday", [AllFree EXCEPT ![1] = "mondayLab", ![4] = "X_LAB",
                                                      ![5] = "X_LAB"]>> >>],
      [subjects |-> <<SubjA>>, config |-> BatchOption, slots |-> <<>>, schedule |-> <<>>] }

\* year/section/semester, with a short and a long section, and one whose
\* section holds characters to escape.
TimetablePaths ==
    {"2024/" \o Repeat("s", n) \o "/5" : n \in {5, MaxSection}} \cup {"2024/a,b;c/5"}

Instant(y, m, d) ==
    [year |-> y, month |-> m, date |-> d, hours |-> 9, minutes |-> 5, seconds |-> 30]

Instants == {Instant(2026, 11, 1), Instant(2024, 2, 27)}

WeeksArguments == {[supplied |-> FALSE, nan |-> FALSE, value |-> 0]} \cup
                  {[supplied |-> TRUE, nan |-> FALSE, value |-> n] : n \in {1, 12}}

(***************************************************************************)
(* SpecICS: generateICS, one weekday of its loop per step                  *)
(***************************************************************************)
InitICS ==
    /\ pc = "generateICS"
    /\ timetable \in IcsDocuments
    /\ config \in {ConfigOf("g1", undefined), ConfigOf("g2", undefined)}
    /\ timetablePath \in TimetablePaths
    /\ weeks \in WeeksArguments
    /\ now \in Instants
    /\ dayOfWeek = 0 /\ lines = <<>> /\ ics = ""
    /\ ResolveIdle /\ DayIdle /\ TextIdle /\ FetchIdle /\ ValidateIdle

\* const lines = [...]; lines.push(...the time zone block)
StartGenerate ==
    /\ pc = "generateICS"
    /\ lines' = headerLines(timetablePath)
    /\ dayOfWeek' = 0
    /\ pc' = "days"
    /\ UNCHANGED <<timetable, config, timetablePath, weeks, now, ics,
                   resolveVars, dayVars, textVars, fetchVars, validateVars>>

\* if (entries.length === 0) continue;
SkipDay ==
    /\ pc = "days"
    /\ dayOfWeek <= 6
    /\ buildDayEntries(DAYS[dayOfWeek + 1], timetable, config) = <<>>
    /\ dayOfWeek' = dayOfWeek + 1
    /\ UNCHANGED <<pc, timetable, config, timetablePath, weeks, now, lines, ics,
                   resolveVars, dayVars, textVars, fetchVars, validateVars>>

\* for (const entry of entries) { lines.push(...) }
PushDay ==
    /\ pc = "days"
    /\ dayOfWeek <= 6
    /\ buildDayEntries(DAYS[dayOfWeek + 1], timetable, config) # <<>>
    /\ lines' = lines \o dayLines(timetable, config, dayOfWeek, now, weeks)
    /\ dayOfWeek' = dayOfWeek + 1
    /\ UNCHANGED <<pc, timetable, config, timetablePath, weeks, now, ics,
                   resolveVars, dayVars, textVars, fetchVars, validateVars>>

\* lines.push('END:VCALENDAR'); return lines.join('\r\n');
ReturnICS ==
    /\ pc = "days"
    /\ dayOfWeek > 6
    /\ lines' = Append(lines, "END:VCALENDAR")
    /\ ics' = join(lines', "\r\n")
    /\ pc' = "returned"
    /\ UNCHANGED <<timetable, config, timetablePath, weeks, now, dayOfWeek,
                   resolveVars, dayVars, textVars, fetchVars, validateVars>>

NextICS == StartGenerate \/ SkipDay \/ PushDay \/ ReturnICS

SpecICS == InitICS /\ [][NextICS]_vars

(***************************************************************************)
(* Claims about generateICS                                                *)
(***************************************************************************)
\* The step-by-step loop returns what generateICS returns.
StepsAgreeWithGenerateICS ==
    pc = "returned" => ics = generateICS(timetable, config, timetablePath, weeks, now)

\* C6: every physical line of the text generateICS returns, every segment
\* between CRLFs, is at most 75 octets long (the texts of the model are
\* ASCII: one octet per character).
C6_LinesWithin75 ==
    pc = "returned" =>
        \A k \in 1..Len(PhysicalLines(ics)) : Len(PhysicalLines(ics)[k]) <= 75

\* C6 for the lines that go through foldLine: no physical line of the UID,
\* SUMMARY and DESCRIPTION lines, nor any line other than the calendar name,
\* is longer than 75 characters.
C6_FoldedLinesWithin75 ==
    pc = "returned" =>
        \A k \in 1..Len(PhysicalLines(ics)) :
            Len(PhysicalLines(ics)[k]) > 75 =>
                SubSeq(PhysicalLines(ics)[k], 1, 13) = "X-WR-CALNAME:"

startsWith(s, prefix) == Len(s) >= Len(prefix) /\ SubSeq(s, 1, Len(prefix)) = prefix

\* A text value in which every backslash, semicolon, comma and newline is
\* escaped: read left to right, a backslash is followed by one of \ ; , n N,
\* and no semicolon, comma or newline stands unescaped.
WellEscaped(v) ==
    \A n \in 1..Len(v) :
        IF BackslashRun(v, n) % 2 = 1
        THEN CharAt(v, n) \in {"\\", ";", ",", "n", "N"}
        ELSE /\ CharAt(v, n) \notin {";", ",", "\n"}
             /\ CharAt(v, n) = "\\" => n < Len(v)

\* The value of the content line l when its name is name, "" otherwise.
ValueOf(l, name) ==
    IF startsWith(l, name \o ":") THEN SubSeq(l, Len(name) + 2, Len(l)) ELSE ""

\* C8: in the text generateICS returns, the values of the calendar-name,
\* SUMMARY and DESCRIPTION lines are escaped: every backslash, semicolon,
\* comma and newline of the title, the subject's name and code and the
\* faculty list (the comma joining it included) stands behind a backslash.
C8_FreeTextEscaped ==
    pc = "returned" =>
        LET content == PhysicalLines(Unfold(ics))
        IN  \A k \in 1..Len(content) :
                /\ WellEscaped(ValueOf(content[k], "X-WR-CALNAME"))
                /\ WellEscaped(ValueOf(content[k], "SUMMARY"))
                /\ WellEscaped(ValueOf(content[k], "DESCRIPTION"))

\* C8 for the two fields escapeICS is applied to: the calendar name and the
\* SUMMARY are escaped.
C8_NameAndSummaryEscaped ==
    pc = "returned" =>
        LET content == PhysicalLines(Unfold(ics))
        IN  \A k \in 1..Len(content) :
                /\ WellEscaped(ValueOf(content[k], "X-WR-CALNAME"))
                /\ WellEscaped(ValueOf(content[k], "SUMMARY"))

(***************************************************************************)
(* The request handler: fetch                                              *)
(***************************************************************************)
isDigits(s) == \A n \in 1..Len(s) : Occurrences("0123456789", CharAt(s, n)) # {}

\* pathname.match(/^\/ics\/(\d{4})\/([^\/]+)\/([^\/]+)$/): split at the
\* slashes, the path is "", "ics", four digits and two non-empty segments.
parseTimetablePath(pathname) ==
    LET parts == split(pathname, "/")
    IN  IF /\ Len(parts) = 5
           /\ parts[1] = "" /\ parts[2] = "ics"
           /\ Len(parts[3]) = 4 /\ isDigits(parts[3])
           /\ parts[4] # "" /\ parts[5] # ""
        THEN [matched |-> TRUE, year |-> parts[3], section |-> parts[4],
              semester |-> parts[5]]
        ELSE [matched |-> FALSE, year |-> "", section |-> "", semester |-> ""]

\* obj[k] = v: a new key goes last, a key the object has keeps its place.
Put(obj, k, v) ==
    IF Has(obj, k)
    THEN [n \in 1..Len(obj) |-> IF obj[n][1] = k THEN <<k, v>> ELSE obj[n]]
    ELSE Append(obj, <<k, v>>)

\* const config = {}; for (const [key, value] of url.searchParams)
\*     if (key !== 'weeks') config[key] = value
RECURSIVE configFrom(_, _)
configFrom(searchParams, n) ==
    IF n = 0 THEN <<>>
    ELSE IF searchParams[n][1] = "weeks" THEN configFrom(searchParams, n - 1)
    ELSE Put(configFrom(searchParams, n - 1), searchParams[n][1], searchParams[n][2])

\* url.searchParams.get(name): the first value of that name, or null.
searchParamsGet(searchParams, name) ==
    LET at == {n \in 1..Len(searchParams) : searchParams[n][1] = name}
    IN  IF at = {} THEN null
        ELSE searchParams[CHOOSE n \in at : \A m \in at : n <= m][2]

\* The number a string of decimal digits writes.
RECURSIVE NumberOf(_)
NumberOf(s) ==
    IF s = "" THEN 0
    ELSE NumberOf(SubSeq(s, 1, Len(s) - 1)) * 10
         + (CHOOSE d \in 0..9 : CharAt("0123456789", d + 1) = CharAt(s, Len(s)))

\* parseInt(s, 10), as the weeksAhead argument: an optional sign, then the
\* longest run of digits; NaN when there is none.
parseInt(s) ==
    LET signed == s # "" /\ CharAt(s, 1) \in {"-", "+"}
        body   == IF signed THEN sliceFrom(s, 1) ELSE s
        run    == Cardinality({n \in 1..Len(body) : isDigits(SubSeq(body, 1, n))})
        value  == NumberOf(SubSeq(body, 1, run))
    IN  IF run = 0 THEN [supplied |-> TRUE, nan |-> TRUE, value |-> 0]
        ELSE [supplied |-> TRUE, nan |-> FALSE,
              value |-> IF signed /\ CharAt(s, 1) = "-" THEN 0 - value ELSE value]

\* option.values.map(v => v.id)
idsOf(option) == [n \in 1..Len(option.values) |-> option.values[n].id]

\* The entries of timetable.config whose key has no truthy value in config.
missingConfig(tt, cfg) == SelectSeq(tt.config, LAMBDA e : Falsy(Get(cfg, e[1])))

missingMessage(missing) ==
    "Missing required config: "
        \o join([n \in 1..Len(missing) |->
                    missing[n][1] \o "=[" \o join(idsOf(missing[n][2]), "|") \o "]"],
                ", ")

\* for (const [key, value] of Object.entries(config)): the first key whose
\* option rejects the value ends the loop.  timetable.config[key] of a key
\* that names a member of Object.prototype is a function: its values are
\* undefined and values.map throws.
RECURSIVE checkValues(_, _, _)
checkValues(tt, cfg, n) ==
    IF n > Len(cfg) THEN [kind |-> "ok", body |-> ""]
    ELSE IF Has(tt.config, cfg[n][1])
    THEN IF cfg[n][2] \in Range(idsOf(GetObj(tt.config, cfg[n][1])))
         THEN checkValues(tt, cfg, n + 1)
         ELSE [kind |-> "invalid",
               body |-> "Invalid value \"" \o cfg[n][2] \o "\" for \"" \o cfg[n][1]
                        \o "\". Valid: "
                        \o join(idsOf(GetObj(tt.config, cfg[n][1])), ", ")]
    ELSE IF cfg[n][1] \in ObjectPrototypeKeys
    THEN [kind |-> "throws",
          body |-> "Internal error: Cannot read properties of undefined (reading 'map')"]
    ELSE checkValues(tt, cfg, n + 1)

\* new Response(body, {status, headers: {'Content-Type': 'text/plain'}})
plainResponse(status, body) ==
    [status |-> status, headers |-> << <<"Content-Type", "text/plain">> >>, body |-> body]

calendarResponse(parsed, body) ==
    [status  |-> 200,
     headers |-> << <<"Content-Type", "text/calendar; charset=utf-8">>,
                    <<"Content-Disposition",
                      "attachment; filename=\"" \o parsed.year \o "-" \o parsed.section
                          \o "-sem" \o parsed.semester \o ".ics\"">>,
                    <<"Cache-Control", "public, max-age=3600">> >>,
     body    |-> body]

(***************************************************************************)
(* Inputs of the request handler                                           *)
(***************************************************************************)
MaxParams == 2

ElectiveOption ==
    << <<"elective", [label |-> "Elective",
                      values |-> <<[label |-> "NLP", id |-> "nlp"],
                                   [label |-> "Computer Vision", id |-> "cv"]>>]>> >>

\* An option whose key is a name every object inherits from Object.prototype.
ConstructorOption ==
    << <<"constructor", [label |-> "Constructor",
                         values |-> <<[label |-> "Steel", id |-> "steel"]>>]>> >>

ElectiveSlot ==
    <<"electiveSlot", [isArray |-> TRUE, match |-> <<"batch", "elective">>,
                       choices |-> <<[pattern |-> <<"g1", "nlp">>, value |-> "A_LAB"],
                                     [pattern |-> <<"*", "*">>, value |-> "B"]>>]>>

\* The documents env.ASSETS serves: the tutorial's (one option), one with two
\* options, one with none, and one with an option named constructor.
HandlerDocuments ==
    { [subjects |-> <<SubjA, SubjB, SubjLSE>>, config |-> BatchOption,
       slots |-> <<MondayLabSlot>>,
       schedule |-> << <<"Monday", TutorialMonday>> >>],
      [subjects |-> <<SubjA, SubjB>>, config |-> BatchOption \o ElectiveOption,
       slots |-> <<ElectiveSlot>>,
       schedule |-> << <<"Tuesday", [AllFree EXCEPT ![4] = "electiveSlot",
                                                    ![5] = "electiveSlot"]>> >>],
      [subjects |-> <<SubjA>>, config |-> <<>>, slots |-> <<>>,
       schedule |-> << <<"Wednesday", [AllFree EXCEPT ![1] = "A"]>> >>],
      [subjects |-> <<SubjA>>, config |-> ConstructorOption \o BatchOption,
       slots |-> <<>>,
       schedule |-> << <<"Thursday", [AllFree EXCEPT ![2] = "A"]>> >>] }

AssetsOutcomes ==
    {[outcome |-> "ok", json |-> d, message |-> ""] : d \in HandlerDocuments} \cup
    {[outcome |-> "notOk", json |-> <<>>, message |-> ""],
     [outcome |-> "throws", json |-> <<>>, message |-> "Network connection lost."]}

Pathnames ==
    {"/ics/2024/cse-a/5", "/ics/24/cse-a/5", "/ics/2024/cse-a", "/ics/2024/cse-a/5/",
     "/v2/files/2024/cse-a/5.json"}

Params ==
    {<<"batch", "g1">>, <<"batch", "g9">>, <<"batch", "">>, <<"elective", "nlp">>,
     <<"weeks", "2">>, <<"weeks", "soon">>, <<"toString", "1">>}

Requests == [pathname : Pathnames, searchParams : SeqUpTo(Params, MaxParams)]

(***************************************************************************)
(* Spec: one request through the handler, one step of fetch per action     *)
(***************************************************************************)
Init ==
    /\ pc = "fetch"
    /\ request \in Requests
    /\ assets \in AssetsOutcomes
    /\ response = <<>>
    /\ timetable = <<>> /\ config = <<>>
    /\ ResolveIdle /\ DayIdle /\ TextIdle /\ IcsIdle /\ ValidateIdle

unusedByFetch == <<resolveVars, dayVars, textVars, dayOfWeek, lines, validateVars>>

Respond(r) ==
    /\ response' = r
    /\ pc' = "done"
    /\ UNCHANGED <<request, assets, timetable, config, timetablePath, weeks, now, ics,
                   unusedByFetch>>

\* if (!url.pathname.startsWith('/ics/')) return new Response(null, {status: 404})
RespondNotHandled ==
    /\ pc = "fetch"
    /\ ~startsWith(request.pathname, "/ics/")
    /\ Respond([status |-> 404, headers |-> <<>>, body |-> null])

RespondInvalidPath ==
    /\ pc = "fetch"
    /\ startsWith(request.pathname, "/ics/")
    /\ ~parseTimetablePath(request.pathname).matched
    /\ Respond(plainResponse(400,
           "Invalid path. Usage: /ics/{year}/{section}/{semester}?{config_key}={config_value}"))

ParsePath ==
    /\ pc = "fetch"
    /\ startsWith(request.pathname, "/ics/")
    /\ parseTimetablePath(request.pathname).matched
    /\ timetablePath' = LET parsed == parseTimetablePath(request.pathname)
                        IN  parsed.year \o "/" \o parsed.section \o "/" \o parsed.semester
    /\ pc' = "assets"
    /\ UNCHANGED <<request, assets, response, timetable, config, weeks, now, ics,
                   unusedByFetch>>

\* await env.ASSETS.fetch(timetableUrl) answers with a response that is not ok
RespondNotFound ==
    /\ pc = "assets"
    /\ assets.outcome = "notOk"
    /\ Respond(plainResponse(404, "Timetable not found: " \o timetablePath))

\* await env.ASSETS.fetch(timetableUrl) throws: the catch block answers
RespondFetchError ==
    /\ pc = "assets"
    /\ assets.outcome = "throws"
    /\ Respond(plainResponse(500, "Internal error: " \o assets.message))

\* timetable = await response.json(), then config is read from the query
ReadDocument ==
    /\ pc = "assets"
    /\ assets.outcome = "ok"
    /\ timetable' = assets.json
    /\ config' = configFrom(request.searchParams, Len(request.searchParams))
    /\ pc' = "missing"
    /\ UNCHANGED <<request, assets, response, timetablePath, weeks, now, ics,
                   unusedByFetch>>

RespondMissingConfig ==
    /\ pc = "missing"
    /\ missingConfig(timetable, config) # <<>>
    /\ Respond(plainResponse(400, missingMessage(missingConfig(timetable, config))))

NothingMissing ==
    /\ pc = "missing"
    /\ missingConfig(timetable, config) = <<>>
    /\ pc' = "values"
    /\ UNCHANGED <<request, assets, response, timetable, config, timetablePath, weeks,
                   now, ics, unusedByFetch>>

RespondInvalidValue ==
    /\ pc = "values"
    /\ checkValues(timetable, config, 1).kind = "invalid"
    /\ Respond(plainResponse(400, checkValues(timetable, config, 1).body))

RespondTypeError ==
    /\ pc = "values"
    /\ checkValues(timetable, config, 1).kind = "throws"
    /\ Respond(plainResponse(500, checkValues(timetable, config, 1).body))

ValuesValid ==
    /\ pc = "values"
    /\ checkValues(timetable, config, 1).kind = "ok"
    /\ pc' = "generate"
    /\ UNCHANGED <<request, assets, response, timetable, config, timetablePath, weeks,
                   now, ics, unusedByFetch>>

\* weeksAhead = parseInt(url.searchParams.get('weeks') || '12', 10);
\* ics = generateICS(timetable, config, timetablePath, weeksAhead)
RespondCalendar ==
    /\ pc = "generate"
    /\ weeks' = parseInt(OrElse(searchParamsGet(request.searchParams, "weeks"), "12"))
    /\ now' \in Instants
    /\ ics' = generateICS(timetable, config, timetablePath, weeks', now')
    /\ response' = calendarResponse(parseTimetablePath(request.pathname), ics')
    /\ pc' = "done"
    /\ UNCHANGED <<request, assets, timetable, config, timetablePath, unusedByFetch>>

Next ==
    \/ RespondNotHandled
    \/ RespondInvalidPath
    \/ ParsePath
    \/ RespondNotFound
    \/ RespondFetchError
    \/ ReadDocument
    \/ RespondMissingConfig
    \/ NothingMissing
    \/ RespondInvalidValue
    \/ RespondTypeError
    \/ ValuesValid
    \/ RespondCalendar

Spec == Init /\ [][Next]_vars

(***************************************************************************)
(* Claims about the request handler                                        *)
(***************************************************************************)
\* The document has been fetched and read.
DocumentRead == pc \in {"missing", "values", "generate"} \/ (pc = "done" /\ timetable # <<>>)

\* The declared option keys for which the request's query holds no parameter.
Unsupplied ==
    {k \in Range(Keys(timetable.config)) :
        \A n \in 1..Len(request.searchParams) : request.searchParams[n][1] # k}

\* The text that names option key k with the full list of its valid ids.
NamedWithIds(k) == k \o "=[" \o join(idsOf(GetObj(timetable.config, k)), "|") \o "]"

\* The response is the ConfigurationIncomplete error naming every key of K.
IncompleteNaming(K) ==
    /\ response.status = 400
    /\ startsWith(response.body, "Missing required config: ")
    /\ \A k \in K : Occurrences(response.body, NamedWithIds(k)) # {}

\* C9: whenever the fetched document declares a config option for which the
\* request supplies no value, generateICS is never run for the request and
\* the response is the status-400 ConfigurationIncomplete error that names
\* every missing option key with the full list of that option's valid ids.
C9_MissingConfigIs400 ==
    (DocumentRead /\ Unsupplied # {}) =>
        /\ pc \in {"missing", "done"}
        /\ ics = ""
        /\ pc = "done" => IncompleteNaming(Unsupplied)

\* C9 for the option keys that are not names of Object.prototype members: a
\* request that leaves one of them out is answered with the error naming
\* every such key, without generateICS being run.
C9_MissingOwnKeyIs400 ==
    (DocumentRead /\ Unsupplied \ ObjectPrototypeKeys # {}) =>
        /\ pc \in {"missing", "done"}
        /\ ics = ""
        /\ pc = "done" => IncompleteNaming(Unsupplied \ ObjectPrototypeKeys)

\* Two options are left out and the handler has answered.
C9_Witness ==
    /\ pc = "done" /\ DocumentRead
    /\ Cardinality(Unsupplied \ ObjectPrototypeKeys) = 2
    /\ response.status = 400

(***************************************************************************)
(* validateSemantics and validateSubjectReference                          *)
(***************************************************************************)
\* obj[k] is truthy, for an object whose values are objects: an own property
\* or an inherited member.
Truthy(obj, k) == Has(obj, k) \/ ToPropertyKey(k) \in ObjectPrototypeKeys

validateSubjectReference(ref, subjects) ==
    \/ Truthy(subjects, ref)
    \/ endsWith(ref, "_LAB") /\ Truthy(subjects, replace(ref, "_LAB", ""))

\* The messages of the checks.
reservedKeyError(key) ==
    "Subject key \"" \o key \o "\" should not end with _LAB (reserved for schedule)"

duplicateIdsError(configKey) == "Config \"" \o configKey \o "\" has duplicate value IDs"

matchKeyError(slotName, matchKey) ==
    "Slot \"" \o slotName \o "\" references non-existent config key \""
        \o ToPropertyKey(matchKey) \o "\""

patternLengthError(slotName, patternLength, matchLength) ==
    "Slot \"" \o slotName \o "\" pattern length (" \o String(patternLength)
        \o ") doesn't match match length (" \o String(matchLength) \o ")"

patternValueError(slotName, patternValue, configKey, validIds) ==
    "Slot \"" \o slotName \o "\" pattern value \"" \o patternValue
        \o "\" is not a valid ID for config \"" \o configKey
        \o "\" (valid: " \o join(validIds, ", ") \o ")"

patternSubjectError(slotName, pattern, value) ==
    "Slot \"" \o slotName \o "\" pattern [" \o join(pattern, ", ")
        \o "] references invalid subject \"" \o value \o "\""

choiceKeyError(slotName, choiceKey, match, validIds) ==
    "Slot \"" \o slotName \o "\" choice key \"" \o choiceKey
        \o "\" is not a valid ID for config \"" \o match
        \o "\" (valid: " \o join(validIds, ", ") \o ")"

choiceSubjectError(slotName, configValue, subjectRef) ==
    "Slot \"" \o slotName \o "\" choice \"" \o configValue
        \o "\" references invalid subject \"" \o subjectRef \o "\""

scheduleEntryError(d, entry) ==
    d \o ": Entry \"" \o entry \o "\" is not a valid subject, slot, or FREE"

\* The concatenation of the sequences of q: what the pushes of a loop add.
Flatten(q) == FlattenRange(q, 1, Len(q))

\* 1. Validate subject keys don't end with _LAB
subjectKeyErrors(subjects) ==
    Flatten([n \in 1..Len(subjects) |->
        IF endsWith(subjects[n][1], "_LAB")
        THEN <<reservedKeyError(subjects[n][1])>> ELSE <<>>])

\* 2. Validate config value ID uniqueness: ids.length !== new Set(ids).size
configIdErrors(cfg) ==
    Flatten([n \in 1..Len(cfg) |->
        IF Len(idsOf(cfg[n][2])) # Cardinality(Range(idsOf(cfg[n][2])))
        THEN <<duplicateIdsError(cfg[n][1])>> ELSE <<>>])

\* The errors of one choice of a ComplexSlot: the pattern's length, the
\* pattern's elements, the value.
complexChoiceErrors(slotName, s, choice, cfg, subjects) ==
    (IF Len(choice.pattern) # Len(s.match)
     THEN <<patternLengthError(slotName, Len(choice.pattern), Len(s.match))>>
     ELSE <<>>)
    \o Flatten([n \in 1..Len(choice.pattern) |->
           IF /\ choice.pattern[n] # "*"
              /\ Has(cfg, At(s.match, n))
              /\ choice.pattern[n] \notin Range(idsOf(GetObj(cfg, At(s.match, n))))
           THEN <<patternValueError(slotName, choice.pattern[n], At(s.match, n),
                                    idsOf(GetObj(cfg, At(s.match, n))))>>
           ELSE <<>>])
    \o (IF choice.value # "FREE" /\ ~validateSubjectReference(choice.value, subjects)
        THEN <<patternSubjectError(slotName, choice.pattern, choice.value)>>
        ELSE <<>>)

\* 3. A ComplexSlot: its match keys, then its choices one by one.
complexSlotErrors(slotName, s, cfg, subjects) ==
    Flatten([n \in 1..Len(s.match) |->
        IF ~Truthy(cfg, s.match[n]) THEN <<matchKeyError(slotName, s.match[n])>>
        ELSE <<>>])
    \o Flatten([c \in 1..Len(s.choices) |->
           complexChoiceErrors(slotName, s, s.choices[c], cfg, subjects)])

\* 3. A SimpleSlot: its match key, its choice keys, its values.
simpleSlotErrors(slotName, s, cfg, subjects) ==
    (IF ~Truthy(cfg, s.match) THEN <<matchKeyError(slotName, s.match)>> ELSE <<>>)
    \o (IF Has(cfg, s.match)
        THEN Flatten([c \in 1..Len(s.choices) |->
                 IF s.choices[c][1] \notin Range(idsOf(GetObj(cfg, s.match)))
                 THEN <<choiceKeyError(slotName, s.choices[c][1], s.match,
                                       idsOf(GetObj(cfg, s.match)))>>
                 ELSE <<>>])
        ELSE <<>>)
    \o Flatten([c \in 1..Len(s.choices) |->
           IF /\ s.choices[c][2] # "FREE"
              /\ ~validateSubjectReference(s.choices[c][2], subjects)
           THEN <<choiceSubjectError(slotName, s.choices[c][1], s.choices[c][2])>>
           ELSE <<>>])

slotErrors(slots, cfg, subjects) ==
    Flatten([n \in 1..Len(slots) |->
        IF slots[n][2].isArray
        THEN complexSlotErrors(slots[n][1], slots[n][2], cfg, subjects)
        ELSE simpleSlotErrors(slots[n][1], slots[n][2], cfg, subjects)])

\* configOption.values.map throws where configOption is an inherited member
\* of config: its values are undefined.
slotsThrow(slots, cfg) ==
    \E k \in 1..Len(slots) :
        LET s == slots[k][2]
        IN  IF s.isArray
            THEN \E c \in 1..Len(s.choices) : \E n \in 1..Len(s.choices[c].pattern) :
                     /\ s.choices[c].pattern[n] # "*"
                     /\ ~Has(cfg, At(s.match, n))
                     /\ Truthy(cfg, At(s.match, n))
            ELSE ~Has(cfg, s.match) /\ Truthy(cfg, s.match)

\* 6. Validate schedule references
scheduleErrors(schedule, slots, subjects) ==
    Flatten([d \in 1..Len(schedule) |->
        Flatten([n \in 1..Len(schedule[d][2]) |->
            IF \/ schedule[d][2][n] = "FREE"
               \/ Truthy(slots, schedule[d][2][n])
               \/ validateSubjectReference(schedule[d][2][n], subjects)
            THEN <<>> ELSE <<scheduleEntryError(schedule[d][1], schedule[d][2][n])>>])])

\* What validateSemantics does with a document: it throws, or returns the
\* messages of the four checks in the order they are pushed.
validateSemantics(data) ==
    IF slotsThrow(data.slots, data.config)
    THEN [threw |-> TRUE, errors |-> <<>>]
    ELSE [threw  |-> FALSE,
          errors |-> subjectKeyErrors(data.subjects)
                         \o configIdErrors(data.config)
                         \o slotErrors(data.slots, data.config, data.subjects)
                         \o scheduleErrors(data.schedule, data.slots, data.subjects)]

(***************************************************************************)
(* Inputs of validateSemantics                                             *)
(***************************************************************************)
SubjML == <<"ML_LAB", Subject("Machine Learning Lab", "23CSE382", <<"Dr. T">>)>>

\* An option whose value ids repeat.
RepeatedIdOption ==
    << <<"batch", [label |-> "Batch",
                   values |-> <<[label |-> "G1", id |-> "g1"],
                                [label |-> "G1 again", id |-> "g1"]>>]>> >>

ValidatedSubjects ==
    {<<SubjA>>, <<SubjA, SubjML>>, <<SubjA, SubjDSL>>, <<SubjML, SubjA, SubjDSL>>}

ValidatedConfigs == {BatchOption, RepeatedIdOption, <<>>}

\* The slots of a document: none, or the one slot s, simple or complex.
SimpleSlotSets ==
    {<<>>} \cup
    {<< <<"s", [isArray |-> FALSE, match |-> m, choices |-> c]>> >> :
        m \in {"batch", "year", "toString"},
        c \in { << <<"g1", "A">> >>,
                << <<"g1", "A_LAB">>, <<"g9", "Z">> >>,
                << <<"g1", "FREE">>, <<"g2", "DS_LAB1_LAB">> >> }}

ComplexSlotSets ==
    {<< <<"s", [isArray |-> TRUE, match |-> m, choices |-> c]>> >> :
        m \in {<<"batch">>, <<"batch", "year">>},
        c \in { <<[pattern |-> <<"g1">>, value |-> "A"]>>,
                <<[pattern |-> <<"g9", "*">>, value |-> "Z_LAB"],
                  [pattern |-> <<"*">>, value |-> "FREE"]>>,
                <<[pattern |-> <<"*", "g1">>, value |-> "DS_LAB1_LAB"]>> }}

\* The schedule cells that vary: the first of Monday and the fourth of Friday.
MondayCells == {"FREE", "A", "A_LAB", "s", "Z", "DS_LAB1_LAB", "ML_LAB_LAB", "B_LAB"}
FridayCells == {"FREE", "Z"}

ValidatedDocuments(slotSets) ==
    {[subjects |-> su, config |-> co, slots |-> sl,
      schedule |-> << <<"Monday", [AllFree EXCEPT ![1] = m]>>,
                      <<"Friday", [AllFree EXCEPT ![4] = f]>> >>] :
        su \in ValidatedSubjects, co \in ValidatedConfigs, sl \in slotSets,
        m \in MondayCells, f \in FridayCells}

(***************************************************************************)
(* SpecValidate: validateSemantics, one check per step                     *)
(***************************************************************************)
InitValidate ==
    /\ pc = "subjects"
    /\ \/ timetable \in ValidatedDocuments(SimpleSlotSets)
       \/ timetable \in ValidatedDocuments(ComplexSlotSets)
    /\ errors = <<>>
    /\ config = <<>>
    /\ ResolveIdle /\ DayIdle /\ TextIdle /\ IcsIdle /\ FetchIdle

unusedByValidate ==
    <<timetable, config, resolveVars, dayVars, textVars, icsVars, fetchVars>>

CheckSubjectKeys ==
    /\ pc = "subjects"
    /\ errors' = errors \o subjectKeyErrors(timetable.subjects)
    /\ pc' = "config"
    /\ UNCHANGED unusedByValidate

CheckConfigIds ==
    /\ pc = "config"
    /\ errors' = errors \o configIdErrors(timetable.config)
    /\ pc' = "slots"
    /\ UNCHANGED unusedByValidate

CheckSlots ==
    /\ pc = "slots"
    /\ ~slotsThrow(timetable.slots, timetable.config)
    /\ errors' = errors \o slotErrors(timetable.slots, timetable.config, timetable.subjects)
    /\ pc' = "schedule"
    /\ UNCHANGED unusedByValidate

\* The TypeError leaves validateSemantics: no list is returned.
ThrowInSlots ==
    /\ pc = "slots"
    /\ slotsThrow(timetable.slots, timetable.config)
    /\ errors' = <<>>
    /\ pc' = "thrown"
    /\ UNCHANGED unusedByValidate

\* The last check, and return errors.
CheckSchedule ==
    /\ pc = "schedule"
    /\ errors' = errors \o scheduleErrors(timetable.schedule, timetable.slots,
                                          timetable.subjects)
    /\ pc' = "returned"
    /\ UNCHANGED unusedByValidate

NextValidate ==
    \/ CheckSubjectKeys
    \/ CheckConfigIds
    \/ CheckSlots
    \/ ThrowInSlots
    \/ CheckSchedule

SpecValidate == InitValidate /\ [][NextValidate]_vars

(***************************************************************************)
(* Claims about validateSemantics                                          *)
(***************************************************************************)
\* The steps return what the function returns.
StepsAgreeWithValidateSemantics ==
    /\ pc = "returned" =>
           validateSemantics(timetable) = [threw |-> FALSE, errors |-> errors]
    /\ pc = "thrown" => validateSemantics(timetable).threw

IsConfigKey(k) == \E n \in 1..Len(timetable.config) : timetable.config[n][1] = k

\* The value ids of the declared option k.
ValueIds(k) ==
    LET option == timetable.config[CHOOSE n \in 1..Len(timetable.config) :
                                       timetable.config[n][1] = k][2]
    IN  {option.values[n].id : n \in 1..Len(option.values)}

IsSlotName(k) == \E n \in 1..Len(timetable.slots) : timetable.slots[n][1] = k

\* A valid subject reference: it names a subject, or it ends with the
\* reserved suffix and names a subject once the suffix is stripped.
ValidSubjectReference(ref) ==
    \/ IsSubjectKey(ref)
    \/ endsWith(ref, "_LAB") /\ IsSubjectKey(StripLabSuffix(ref))

\* Check 1: the subject keys that end with the reserved suffix.
Violations1 ==
    {reservedKeyError(timetable.subjects[n][1]) : n \in
        {n \in 1..Len(timetable.subjects) : endsWith(timetable.subjects[n][1], "_LAB")}}

\* Check 2: the options two of whose values have one id.
Violations2 ==
    {duplicateIdsError(timetable.config[n][1]) : n \in
        {n \in 1..Len(timetable.config) :
            \E a, b \in 1..Len(timetable.config[n][2].values) :
                a # b /\ timetable.config[n][2].values[a].id
                             = timetable.config[n][2].values[b].id}}

\* Check 3 for the ComplexSlot s named name: match keys that config lacks,
\* patterns of the wrong length, pattern elements that are neither "*" nor a
\* value id of the aligned declared key, values that are neither "FREE" nor
\* a valid subject reference.
ComplexViolations(name, s) ==
    {matchKeyError(name, s.match[n]) : n \in {n \in 1..Len(s.match) : ~IsConfigKey(s.match[n])}}
    \cup {patternLengthError(name, Len(s.choices[c].pattern), Len(s.match)) : c \in
            {c \in 1..Len(s.choices) : Len(s.choices[c].pattern) # Len(s.match)}}
    \cup UNION {{patternValueError(name, s.choices[c].pattern[n], s.match[n],
                                   idsOf(GetObj(timetable.config, s.match[n]))) : n \in
                    {n \in 1..Len(s.choices[c].pattern) :
                        /\ n <= Len(s.match)
                        /\ IsConfigKey(s.match[n])
                        /\ s.choices[c].pattern[n] # "*"
                        /\ s.choices[c].pattern[n] \notin ValueIds(s.match[n])}} :
                c \in 1..Len(s.choices)}
    \cup {patternSubjectError(name, s.choices[c].pattern, s.choices[c].value) : c \in
            {c \in 1..Len(s.choices) :
                /\ s.choices[c].value # "FREE"
                /\ ~ValidSubjectReference(s.choices[c].value)}}

\* Check 3 for the SimpleSlot s named name.
SimpleViolations(name, s) ==
    (IF IsConfigKey(s.match) THEN {} ELSE {matchKeyError(name, s.match)})
    \cup {choiceKeyError(name, s.choices[c][1], s.match,
                         idsOf(GetObj(timetable.config, s.match))) : c \in
            {c \in 1..Len(s.choices) :
                IsConfigKey(s.match) /\ s.choices[c][1] \notin ValueIds(s.match)}}
    \cup {choiceSubjectError(name, s.choices[c][1], s.choices[c][2]) : c \in
            {c \in 1..Len(s.choices) :
                s.choices[c][2] # "FREE" /\ ~ValidSubjectReference(s.choices[c][2])}}

Violations3 ==
    UNION {IF timetable.slots[n][2].isArray
           THEN ComplexViolations(timetable.slots[n][1], timetable.slots[n][2])
           ELSE SimpleViolations(timetable.slots[n][1], timetable.slots[n][2]) :
           n \in 1..Len(timetable.slots)}

\* Check 4: the cells that are not "FREE", a slot name or a valid reference.
Violations4 ==
    UNION {{scheduleEntryError(timetable.schedule[d][1], timetable.schedule[d][2][n]) : n \in
               {n \in 1..Len(timetable.schedule[d][2]) :
                   LET cell == timetable.schedule[d][2][n]
                   IN  cell # "FREE" /\ ~IsSlotName(cell) /\ ~ValidSubjectReference(cell)}} :
           d \in 1..Len(timetable.schedule)}

\* The error of every violated instance of the checks 1-4.
Violations == Violations1 \cup Violations2 \cup Violations3 \cup Violations4

\* C10: for every document, the list validateSemantics returns contains an
\* error for each violated instance of the checks 1-4, whichever other checks
\* are violated, and it is empty exactly when the document violates none.
C10_AllViolationsCollected ==
    pc = "returned" =>
        /\ Violations \subseteq Range(errors)
        /\ errors = <<>> <=> Violations = {}

\* A reference of the document (a slot's value or a schedule cell) from
\* which removing the first "_LAB" and stripping the suffix differ.
References ==
    UNION {IF timetable.slots[n][2].isArray
           THEN {timetable.slots[n][2].choices[c].value : c \in 1..Len(timetable.slots[n][2].choices)}
           ELSE {timetable.slots[n][2].choices[c][2] : c \in 1..Len(timetable.slots[n][2].choices)} :
           n \in 1..Len(timetable.slots)}
    \cup UNION {Range(timetable.schedule[d][2]) : d \in 1..Len(timetable.schedule)}

SuffixIsFirstLab ==
    \A ref \in References :
        endsWith(ref, "_LAB") => replace(ref, "_LAB", "") = StripLabSuffix(ref)

\* C10 for the documents in whose references the suffix is what replace
\* removes: the returned list holds exactly the errors of the violated
\* instances.
C10_CollectedWhereSuffixIsFirstLab ==
    (pc = "returned" /\ SuffixIsFirstLab) => Range(errors) = Violations

\* How many times the message msg stands in the returned list.
TimesReported(msg) == Cardinality({n \in 1..Len(errors) : errors[n] = msg})

\* One reserved-suffix error per subject key ending in _LAB, none for others.
OneReservedErrorPerLabKey ==
    \A n \in 1..Len(timetable.subjects) :
        TimesReported(reservedKeyError(timetable.subjects[n][1]))
            = IF endsWith(timetable.subjects[n][1], "_LAB") THEN 1 ELSE 0

\* The document has the subject key "ML_LAB" and violates nothing else.
ValidButForML ==
    /\ IsSubjectKey("ML_LAB")
    /\ Violations = {reservedKeyError("ML_LAB")}

\* C11: on a document that is otherwise valid and has the subject key
\* "ML_LAB", validateSemantics returns exactly one error, the reserved-suffix
\* error of that key; and in general the list holds one reserved-suffix error
\* per subject key ending in _LAB and none for the other keys.
C11_ReservedSuffixErrors ==
    pc = "returned" =>
        /\ OneReservedErrorPerLabKey
        /\ ValidButForML => errors = <<reservedKeyError("ML_LAB")>>

\* C11 for the documents in whose references the suffix is what replace
\* removes.
C11_ReservedSuffixErrorsWhereSuffixIsFirstLab ==
    (pc = "returned" /\ SuffixIsFirstLab) =>
        /\ OneReservedErrorPerLabKey
        /\ ValidButForML => errors = <<reservedKeyError("ML_LAB")>>

\* An otherwise valid document with the key "ML_LAB" and a slot has been
\* validated.
C11_Witness ==
    /\ pc = "returned"
    /\ ValidButForML /\ SuffixIsFirstLab
    /\ timetable.slots # <<>>
    /\ errors = <<reservedKeyError("ML_LAB")>>

(***************************************************************************)
(* Claims about the recurrence horizon                                     *)
(***************************************************************************)
\* The physical lines of the calendar that start with prefix.
LinesStarting(prefix) ==
    {n \in 1..Len(PhysicalLines(ics)) : startsWith(PhysicalLines(ics)[n], prefix)}

\* The UNTIL value of a recurrence rule line.
UntilOf(line) ==
    LET at == CHOOSE p \in Occurrences(line, ";UNTIL=") : TRUE
    IN  SubSeq(line, at + 7, Len(line))

\* The UNTIL value u is the last second of the day h weeks after now:
\* YYYYMMDD of the date 7 * h days after today, then T235959Z.
EndsWeeksAfterNow(u, h) ==
    /\ Len(u) = 16
    /\ isDigits(SubSeq(u, 1, 8))
    /\ SubSeq(u, 9, 16) = "T235959Z"
    /\ DayNumber(NumberOf(SubSeq(u, 1, 4)), NumberOf(SubSeq(u, 5, 6)),
                 NumberOf(SubSeq(u, 7, 8)))
           = DayNumber(now.year, now.month, now.date) + 7 * h
    /\ NumberOf(SubSeq(u, 5, 6)) \in 1..12
    /\ NumberOf(SubSeq(u, 7, 8)) \in 1..31

\* Every event of the calendar has one weekly rule, and it ends h weeks
\* after now.
EveryRuleEnds(h) ==
    /\ Cardinality(LinesStarting("RRULE:")) = Cardinality(LinesStarting("BEGIN:VEVENT"))
    /\ \A n \in LinesStarting("RRULE:") :
          /\ startsWith(PhysicalLines(ics)[n], "RRULE:FREQ=WEEKLY;")
          /\ Cardinality(Occurrences(PhysicalLines(ics)[n], ";UNTIL=")) = 1
          /\ EndsWeeksAfterNow(UntilOf(PhysicalLines(ics)[n]), h)

\* C13 as stated: the weekly rule of every event generateICS emits ends
\* weeksAhead weeks (weeksAhead x 7 days) after now, and 12 weeks after now
\* when the caller passes no weeksAhead.
C13_HorizonDefault12 ==
    pc = "returned" =>
        EveryRuleEnds(IF weeks.supplied THEN weeks.value ELSE 12)

\* C13 as amended: the weekly rule of every event generateICS emits ends
\* weeksAhead weeks (weeksAhead x 7 days) after now, and 16 weeks after now
\* when the caller passes no weeksAhead.
C13_HorizonDefault16 ==
    pc = "returned" =>
        EveryRuleEnds(IF weeks.supplied THEN weeks.value ELSE 16)

\* C13 witness: a calendar with events was generated without a weeksAhead
\* argument.
C13_Witness ==
    /\ pc = "returned"
    /\ ~weeks.supplied
    /\ Cardinality(LinesStarting("RRULE:")) >= 2

\* The request handler always passes a horizon: the weeks parameter, or 12
\* when the request has none or an empty one; a calendar it answers with
\* ends its rules that many weeks after now when the parameter is a number.
C13_HandlerPasses12 ==
    (pc = "done" /\ response.status = 200) =>
        /\ weeks.supplied
        /\ Falsy(searchParamsGet(request.searchParams, "weeks")) =>
               (~weeks.nan /\ weeks.value = 12)
        /\ ~weeks.nan => EveryRuleEnds(weeks.value)

(***************************************************************************)
(* Claims about the base subject key                                       *)
(***************************************************************************)
\* The step n of the scan, at a cell holding v, used the subject
\* subjects[BaseSubjectKey(v)]: it pushed an entry exactly if that key is a
\* key of subjects, and the entry carries that subject's name, code and
\* faculty.
UsedBaseSubject(n) ==
    LET v == resolved[steps[n].at + 1]
    IN  IF IsSubjectKey(BaseSubjectKey(v))
        THEN /\ steps[n].after = steps[n].before + 1
             /\ entries[steps[n].after].code = SubjectNamed(BaseSubjectKey(v)).code
             /\ entries[steps[n].after].faculty = SubjectNamed(BaseSubjectKey(v)).faculty
             /\ endsWith(entries[steps[n].after].name, SubjectNamed(BaseSubjectKey(v)).name)
        ELSE steps[n].after = steps[n].before

\* C14: for a resolved value v that is not "FREE", buildDayEntries uses
\* subjects[v without its trailing _LAB] when v ends with _LAB and subjects[v]
\* otherwise, removing the suffix only and no other "_LAB" of the key; and
\* validateSubjectReference accepts v exactly if v, or v without its trailing
\* _LAB, is a key of subjects.
C14_OnlySuffixRemoved ==
    \A n \in 1..Len(steps) :
        resolved[steps[n].at + 1] # "FREE" =>
            /\ UsedBaseSubject(n)
            /\ validateSubjectReference(resolved[steps[n].at + 1], timetable.subjects)
                   <=> ValidSubjectReference(resolved[steps[n].at + 1])

\* C14 for the values in which "_LAB" occurs as the suffix only.
C14_OnlySuffixRemovedPlainKeys ==
    \A n \in 1..Len(steps) :
        LET v == resolved[steps[n].at + 1]
        IN  (v # "FREE" /\ Occurrences(v, "_LAB") \subseteq {Len(v) - 3}) =>
                /\ UsedBaseSubject(n)
                /\ validateSubjectReference(v, timetable.subjects)
                       <=> ValidSubjectReference(v)

\* A day with a lab run, a lab cell outside a run and a plain cell, each of
\* an existing subject, was compiled.
C14_Witness ==
    /\ pc = "returned"
    /\ resolved = <<"A_LAB", "A_LAB", "A_LAB", "A_LAB", "A", "B", "B">>
    /\ Len(entries) = 5

(***************************************************************************)
(* SpecDayFair: buildDayEntries runs on: a step that can be taken is taken *)
(***************************************************************************)
SpecDayFair == SpecDay /\ WF_vars(NextDay)

(***************************************************************************)
(* Claims about the scan's cursor                                          *)
(***************************************************************************)
\* The positions step n of the scan stands for: from its cursor up to, not
\* including, the cursor it leaves.
Covered(n) == steps[n].at..(steps[n].to - 1)

\* The steps so far: the cursor starts at 0, each step starts where the one
\* before left, advances by 1, 2 or 3 and not beyond 7; a step that advances
\* by more than 1 stands for a confirmed lab run (cells of one _LAB-suffixed
\* value); a step pushes at most one entry.
CursorAdvances ==
    /\ i \in 0..7
    /\ (steps # <<>> => steps[1].at = 0 /\ steps[Len(steps)].to = i)
    /\ (steps = <<>> => i = 0)
    /\ \A n \in 1..Len(steps) :
          /\ steps[n].to - steps[n].at \in 1..3
          /\ steps[n].to <= 7
          /\ n > 1 => steps[n].at = steps[n - 1].to
          /\ steps[n].to - steps[n].at > 1 =>
                /\ steps[n].at \in {0, 3, 5}
                /\ steps[n].to - steps[n].at = (IF steps[n].at = 0 THEN 3 ELSE 2)
                /\ \A p \in Covered(n) :
                      /\ resolved[p + 1] = resolved[steps[n].at + 1]
                      /\ endsWith(resolved[p + 1], "_LAB")
          /\ steps[n].after - steps[n].before \in {0, 1}
          /\ steps[n].before = (IF n = 1 THEN 0 ELSE steps[n - 1].after)
    /\ Len(entries) = (IF steps = <<>> THEN 0 ELSE steps[Len(steps)].after)

\* The scan of a day with cells is over: the cursor is 7, every position
\* 0..6 belongs to exactly one step, and at most 7 entries were pushed.
ScanComplete ==
    (pc = "returned" /\ resolved # <<>>) =>
        /\ i = 7
        /\ \A p \in 0..6 : Cardinality({n \in 1..Len(steps) : p \in Covered(n)}) = 1
        /\ Len(entries) <= Len(steps) /\ Len(steps) <= 7

\* C15: the scan of a 7-cell resolved day terminates; its cursor starts at 0,
\* grows by 1, 2 or 3 at each step, is never above 7 and ends at 7; every
\* position 0..6 is visited by the cursor or skipped as part of exactly one
\* confirmed lab run, so at most 7 entries are pushed and no position
\* contributes to two entries.
C15_ScanTerminates ==
    /\ [](CursorAdvances /\ ScanComplete)
    /\ <>(pc = "returned")

\* C15 witness: a scan that took a lab run of three, a lab run of two and
\* single steps is over.
C15_Witness ==
    /\ pc = "returned"
    /\ Len(steps) = 4
    /\ steps[1].to = 3 /\ steps[2].to = 5 /\ steps[3].to = 6 /\ steps[4].to = 7
    /\ Len(entries) = 4

(***************************************************************************)
(* Claims about the order of a day's entries                               *)
(***************************************************************************)
\* The minutes since midnight of a wall-clock time written HH:MM.
MinutesOf(hhmm) == NumberOf(SubSeq(hhmm, 1, 2)) * 60 + NumberOf(SubSeq(hhmm, 4, 5))

\* The entries es are in strictly increasing start order, and each ends no
\* later than the next starts.
OrderedApart(es) ==
    \A n \in 1..(Len(es) - 1) :
        /\ MinutesOf(es[n].start) < MinutesOf(es[n + 1].start)
        /\ MinutesOf(es[n].end) <= MinutesOf(es[n + 1].start)

\* The UID generateICS builds for entry number n of the day.
UidOfEntry(n) == uidOf(entries[n], CHOOSE dow \in 0..6 : DAYS[dow + 1] = day)

\* C16: the entries buildDayEntries returns for a day are in strictly
\* increasing start-time order and do not overlap (an entry ends no later
\* than the next one starts), also where widened lab ranges stand next to
\* base ranges; so their start times differ, and the UIDs built from the
\* weekday, the start time and the subject code differ pairwise.
C16_EntriesOrderedUidsDistinct ==
    pc = "returned" =>
        /\ OrderedApart(entries)
        /\ \A m, n \in 1..Len(entries) :
              m # n => /\ entries[m].start # entries[n].start
                       /\ UidOfEntry(m) # UidOfEntry(n)

\* C16 witness: a day of one subject with a base entry at position 2 next to
\* a lab cell at 3, a lab run at 5 behind a lab cell at 4, was compiled.
C16_Witness ==
    /\ pc = "returned"
    /\ resolved = <<"A", "A", "A", "A_LAB", "A", "A_LAB", "A_LAB">>
    /\ Len(entries) = 6

\* The UID lines of a generated calendar differ pairwise, one per event.
C16_CalendarUidsDistinct ==
    pc = "returned" =>
        /\ Cardinality(LinesStarting("UID:")) = Cardinality(LinesStarting("BEGIN:VEVENT"))
        /\ \A m, n \in LinesStarting("UID:") :
              m # n => PhysicalLines(ics)[m] # PhysicalLines(ics)[n]

=============================================================================
